---------------------------- MODULE Spec2Model ----------------------------
(***************************************************************************)
(* Model of the carisma-simulator (SimSoM) message-passing pipeline:       *)
(*   data manager -> policy filter -> agent pool manager -> agent handlers *)
(* together with the moderation function suspension() and the worker       *)
(* cycle (feed merge, prepend, cut-off).                                   *)
(*                                                                         *)
(* Three groups of variables, one per specification:                       *)
(*   ModSpec    repeated moderation of a persistent population             *)
(*   CycleSpec  the worker cycle of each worker variant                    *)
(*   Spec       the pipeline of processes and channels (FairSpec adds      *)
(*              the fairness of the MPI processes)                         *)
(***************************************************************************)
EXTENDS Integers, Sequences, FiniteSets, TLC

(***************************************************************************)
(* Bounds of the model.                                                    *)
(***************************************************************************)
NumUsers == 2          \* users of the moderated population
MaxTime == 2           \* timestamps are 0..MaxTime, one tick = 0.5 time units
MaxStrikes == 4        \* strike counters are explored up to this value
NumAgents == 2         \* agents the data manager starts with
NumWorkers == 2        \* agent handler processes of the pool
MaxBatches == 2        \* batches the data manager emits
MaxIn == 2             \* inbound messages of one work item
MaxMsgTime == 2        \* creation times of messages are 1..MaxMsgTime

(***************************************************************************)
(* Program constants.                                                      *)
(***************************************************************************)
CooldownTicks == 1     \* "> 0.5" in ticks of 0.5
TerminationThreshold == 3
cut_off == 15

Users == 1..NumUsers
Times == 0..MaxTime

Abs(x) == IF x < 0 THEN -x ELSE x

Min(a, b) == IF a < b THEN a ELSE b

Range(s) == {s[i] : i \in DOMAIN s}

(* All sequences over S of length at most n. *)
SeqsUpTo(S, n) == UNION {[1..k -> S] : k \in 0..n}

(* The orders in which the elements of S can stand in a batch. *)
Orderings(S) ==
    {s \in [1..Cardinality(S) -> S] :
        \A i, j \in DOMAIN s : i # j => s[i] # s[j]}

(***************************************************************************)
(* Messages.  uid is the author, time the creation time and rid the        *)
(* reshared_original_id: the id of the original for a reshare, a NaN       *)
(* float object for an original.  A NaN object is named by its identity:   *)
(* two messages hold the same NaN object only when they are one instance.  *)
(***************************************************************************)
NaNs == {"nanA", "nanB"}

Message(uid, time, rid) == [uid |-> uid, time |-> time, rid |-> rid]

(* A user right after construction: no moderation history. *)
NewUser(uid) ==
    [uid |-> uid,
     is_flagged |-> FALSE, is_suspended |-> FALSE, is_terminated |-> FALSE,
     flagged_time |-> 0, suspended_time |-> 0,
     sus_strike_count |-> 0,
     bad_message_posting |-> FALSE,
     newsfeed |-> << >>]

VARIABLES
    usr,        \* ModSpec: the observed user (uid 1) with its moderation history
    mIn,        \* ModSpec: the last batch as received by the policy filter
    mOut,       \* ModSpec: that batch after the loop over its packs
    mPc,        \* ModSpec: "recv", "process" or "send", the filter's position
    wVariant,   \* CycleSpec: the worker variant that runs
    wFeed,      \* CycleSpec: newsfeed of the agent in the last emitted result
    wPc,        \* CycleSpec: "recv", "work", "send" or "aborted", the worker's position
    wIn,        \* CycleSpec: in_messages of the work item being handled
    wRaw,       \* CycleSpec: in_messages + newsfeed of this cycle
    wNew,       \* CycleSpec: the newsfeed this cycle assigned before make_actions
    pVariant,   \* Spec: "simsom" or "FilCompliant", the package that runs
    dmPool,     \* Spec: the agents the data manager holds
    dmSent,     \* Spec: number of batches the data manager has emitted
    dmStop,     \* Spec: the data manager has emitted the sentinel
    chPF,       \* Spec: messages in flight to the policy filter
    chPM,       \* Spec: messages in flight to the pool manager
    chW,        \* Spec: messages in flight to each agent handler
    chDM,       \* Spec: results in flight from each agent handler
    pcPF,       \* Spec: "recv", "crashed" or "done"
    pcPM,       \* Spec: "recv", "dispatch", "wait", "shutdown" or "done"
    pcW,        \* Spec: per handler "recv", "crashed" or "done"
    users_packs_batch,  \* Spec: the batch the pool manager received last
    active_user_packs,  \* Spec: the packs the pool manager has still to send
    dispatch_requests,  \* Spec: number of isend requests not yet complete
    pmNext,     \* Spec: next handler rank of the shutdown loop
    pmBatchNo,  \* Spec: number of batches the pool manager has received
    sentLog,    \* Spec: the isends of the dispatch loop since it was entered, in order
    sigW,       \* Spec: sentinels sent to each handler
    sigPM,      \* Spec: sentinels sent to the pool manager
    pmDropped,  \* Spec: suspended, not terminated agents the filter left out
    pmExpected, \* Spec: sizes of the received batches with an active agent, summed
    nResults,   \* Spec: results emitted by the handlers
    fFollowers, \* FanoutSpec: agent.followers of the call
    fMessages,  \* FanoutSpec: the messages of the call
    fBoard,     \* FanoutSpec: message_board before the call
    fOut,       \* FanoutSpec: message_board after the call
    fPc,        \* FanoutSpec: "call" or "done"
    agents,                 \* SchedSpec: the agents waiting in the pool
    ready_handlers_list,    \* SchedSpec: ranks of the handlers without work
    busy_handlers_list,     \* SchedSpec: ranks of the handlers with work
    incoming_message_board, \* SchedSpec: agent id -> messages waiting for it
    rFollowers,             \* SchedSpec: agent id -> its follower list
    iteration,              \* SchedSpec: iterations of the loop finished
    rPc,                    \* SchedSpec: where the pool manager is
    rScan,                  \* SchedSpec: rest of the copy of the busy list
    rToHandler,             \* SchedSpec: handler -> messages sent to it
    rReply,                 \* SchedSpec: handler -> replies it sent
    hPc                     \* SchedSpec: handler -> "recv" or "done"

modVars == <<usr, mIn, mOut, mPc>>

cycVars == <<wVariant, wFeed, wPc, wIn, wRaw, wNew>>

pipeVars == <<pVariant, dmPool, dmSent, dmStop, chPF, chPM, chW, chDM,
              pcPF, pcPM, pcW, users_packs_batch, active_user_packs,
              dispatch_requests, pmNext, pmBatchNo, sentLog, sigW, sigPM,
              pmDropped, pmExpected, nResults>>

fanVars == <<fFollowers, fMessages, fBoard, fOut, fPc>>

rbVars == <<agents, ready_handlers_list, busy_handlers_list,
            incoming_message_board, rFollowers, iteration, rPc, rScan,
            rToHandler, rReply, hPc>>

vars == <<usr, mIn, mOut, mPc, wVariant, wFeed, wPc, wIn, wRaw, wNew,
          pVariant, dmPool, dmSent, dmStop, chPF, chPM, chW, chDM,
          pcPF, pcPM, pcW, users_packs_batch, active_user_packs,
          dispatch_requests, pmNext, pmBatchNo, sentLog, sigW, sigPM,
          pmDropped, pmExpected, nResults,
          fFollowers, fMessages, fBoard, fOut, fPc,
          agents, ready_handlers_list, busy_handlers_list,
          incoming_message_board, rFollowers, iteration, rPc, rScan,
          rToHandler, rReply, hPc>>

Workers == 1..NumWorkers

Agents == 1..NumAgents

(* The pipeline at rest, for the specifications that do not run it. *)
PipeIdle ==
    /\ pVariant = "none" /\ dmPool = {} /\ dmSent = 0 /\ dmStop = FALSE
    /\ chPF = << >> /\ chPM = << >>
    /\ chW = [w \in Workers |-> << >>] /\ chDM = [w \in Workers |-> << >>]
    /\ pcPF = "recv" /\ pcPM = "recv" /\ pcW = [w \in Workers |-> "recv"]
    /\ users_packs_batch = << >> /\ active_user_packs = << >>
    /\ dispatch_requests = 0 /\ pmNext = 1 /\ pmBatchNo = 0
    /\ sentLog = << >> /\ sigW = [w \in Workers |-> 0] /\ sigPM = 0
    /\ pmDropped = {} /\ pmExpected = 0 /\ nResults = 0

(* The variables of the ready/busy scheduler at rest. *)
SchedIdle ==
    /\ agents = << >> /\ ready_handlers_list = << >> /\ busy_handlers_list = << >>
    /\ incoming_message_board = << >> /\ rFollowers = << >>
    /\ iteration = 0 /\ rPc = "done" /\ rScan = << >>
    /\ rToHandler = << >> /\ rReply = << >> /\ hPc = << >>

(* The variables of the fan-out call at rest. *)
FanIdle ==
    /\ fFollowers = << >> /\ fMessages = << >>
    /\ fBoard = << >> /\ fOut = << >> /\ fPc = "done"

(* The moderation and worker-cycle variables at rest. *)
ModIdle ==
    /\ usr = NewUser(1) /\ mIn = << >> /\ mOut = << >> /\ mPc = "recv"

CycleIdle ==
    /\ wVariant = "none" /\ wFeed = << >> /\ wPc = "recv"
    /\ wIn = << >> /\ wRaw = << >> /\ wNew = << >>

(***************************************************************************)
(* suspension(), policy_filter_process.py                                  *)
(***************************************************************************)

(* LiftCooldown with ">=" for ">": a cooldown of exactly 0.5 expires. *)
LiftCooldown_AtHalf(user, current_time) ==
    LET u1 == IF user.is_suspended
                 /\ Abs(current_time - user.suspended_time) >= CooldownTicks
              THEN [user EXCEPT !.is_suspended = FALSE]
              ELSE user
    IN  IF u1.is_flagged
           /\ Abs(current_time - u1.flagged_time) >= CooldownTicks
        THEN [u1 EXCEPT !.is_flagged = FALSE]
        ELSE u1

(* Lines 14-20: lift an expired suspension, then an expired flag. *)
LiftCooldown(user, current_time) ==
    LET u1 == IF user.is_suspended
                 /\ Abs(current_time - user.suspended_time) > CooldownTicks
              THEN [user EXCEPT !.is_suspended = FALSE]
              ELSE user
    IN  IF u1.is_flagged
           /\ Abs(current_time - u1.flagged_time) > CooldownTicks
        THEN [u1 EXCEPT !.is_flagged = FALSE]
        ELSE u1

(* Strike with flagged_time stamped in the already-flagged branch too. *)
Strike_RestampFlag(user, current_time) ==
    [user EXCEPT !.is_flagged = TRUE,
                 !.is_suspended = TRUE,
                 !.sus_strike_count = @ + 1,
                 !.flagged_time = current_time,
                 !.suspended_time = current_time]

(* Lines 24-35: the two strike branches of a user that posted a bad message. *)
Strike(user, current_time) ==
    IF ~user.is_flagged
    THEN [user EXCEPT !.is_flagged = TRUE,
                      !.is_suspended = TRUE,
                      !.sus_strike_count = @ + 1,
                      !.flagged_time = current_time,
                      !.suspended_time = current_time]
    ELSE [user EXCEPT !.is_suspended = TRUE,
                      !.suspended_time = current_time,
                      !.sus_strike_count = @ + 1]

(* PurgeFeeds with the loop over the other users left out. *)
PurgeFeeds_OwnOnly(batch, uid) ==
    [j \in DOMAIN batch |->
        IF batch[j][1].uid = uid
        THEN [batch[j] EXCEPT ![1].newsfeed =
                 SelectSeq(@, LAMBDA msg : msg.uid # uid)]
        ELSE batch[j]]

(* Lines 42-46: drop the messages authored by uid from every feed of the batch. *)
PurgeFeeds(batch, uid) ==
    [j \in DOMAIN batch |->
        [batch[j] EXCEPT ![1].newsfeed =
            SelectSeq(@, LAMBDA msg : msg.uid # uid)]]

(* CheckTermination with ">" for ">=". *)
CheckTermination_Late(user) ==
    IF user.sus_strike_count > TerminationThreshold
    THEN [user EXCEPT !.is_terminated = TRUE]
    ELSE user

(* Lines 49-50: account termination. *)
CheckTermination(user) ==
    IF user.sus_strike_count >= TerminationThreshold
    THEN [user EXCEPT !.is_terminated = TRUE]
    ELSE user

(* suspension that leaves a terminated user alone. *)
suspension_SkipTerminated(batch, i, current_time) ==
    LET u2 == LiftCooldown(batch[i][1], current_time)
    IN  IF ~u2.bad_message_posting \/ u2.is_terminated
        THEN [batch EXCEPT ![i][1] = u2]
        ELSE LET u3 == Strike(u2, current_time)
                 u4 == [u3 EXCEPT !.newsfeed = << >>]
                 b1 == [batch EXCEPT ![i][1] = u4]
                 b2 == PurgeFeeds(b1, u4.uid)
             IN  [b2 EXCEPT ![i][1] = CheckTermination(b2[i][1])]

(* Lines 4-50: suspension(user, users_packs_batch, current_time) applied to *)
(* the user of pack i; the result is the batch with every object it mutated. *)
suspension(batch, i, current_time) ==
    LET u2 == LiftCooldown(batch[i][1], current_time)
    IN  IF ~u2.bad_message_posting
        THEN [batch EXCEPT ![i][1] = u2]
        ELSE LET u3 == Strike(u2, current_time)
                 u4 == [u3 EXCEPT !.newsfeed = << >>]
                 b1 == [batch EXCEPT ![i][1] = u4]
                 b2 == PurgeFeeds(b1, u4.uid)
             IN  [b2 EXCEPT ![i][1] = CheckTermination(b2[i][1])]

(* run_policy_filter lines 80-89: the packs of the batch in order, each  *)
(* with its own current_time, starting with pack i.                      *)
RECURSIVE ProcessBatch(_, _)
ProcessBatch(batch, i) ==
    IF i > Len(batch)
    THEN batch
    ELSE ProcessBatch(suspension(batch, i, batch[i][3]), i + 1)

(***************************************************************************)
(* ModSpec: every batch holds all users in some order.  User 1 is         *)
(* moderated batch after batch and keeps its moderation history; the       *)
(* other members of a batch are users without history.                     *)
(* Between two batches the rest of the pipeline refills the feeds and      *)
(* raises or lowers bad_message_posting; both arrive with the batch.       *)
(***************************************************************************)
(* A feed is empty or holds one message of every user. *)
ModFeeds == {<< >>, [u \in Users |-> Message(u, 1, "nanA")]}

ModInit ==
    /\ usr = NewUser(1)
    /\ mIn = << >>
    /\ mOut = << >>
    /\ mPc = "recv"
    /\ CycleIdle
    /\ PipeIdle
    /\ FanIdle
    /\ SchedIdle

(* The pack of user u in a batch stamped t. *)
ModPack(u, bad, feed, t) ==
    <<[(IF u = 1 THEN usr ELSE NewUser(u)) EXCEPT
          !.bad_message_posting = bad, !.newsfeed = feed],
      << >>, t>>

(* run_policy_filter lines 69-71: a batch arrives. *)
ModRecv ==
    \E order \in Orderings(Users), t \in Times, f \in ModFeeds,
       bad \in [Users -> BOOLEAN] :
        /\ mPc = "recv"
        /\ usr.sus_strike_count < MaxStrikes
        /\ mIn' = [k \in DOMAIN order |->
                      ModPack(order[k], bad[order[k]], f, t)]
        /\ mOut' = << >>
        /\ mPc' = "process"
        /\ UNCHANGED <<usr, cycVars, pipeVars, fanVars, rbVars>>

(* run_policy_filter lines 80-91: the loop over the packs. *)
ModProcess ==
    /\ mPc = "process"
    /\ mOut' = ProcessBatch(mIn, 1)
    /\ mPc' = "send"
    /\ UNCHANGED <<usr, mIn, cycVars, pipeVars, fanVars, rbVars>>

(* run_policy_filter line 95: the batch leaves; user 1 carries its        *)
(* moderation fields along, its feed and bad_message_posting are rewritten *)
(* downstream before it comes back.                                        *)
ModSend ==
    /\ mPc = "send"
    /\ usr' = IF \E k \in DOMAIN mOut : mOut[k][1].uid = 1
              THEN [mOut[CHOOSE k \in DOMAIN mOut : mOut[k][1].uid = 1][1]
                       EXCEPT !.newsfeed = << >>,
                              !.bad_message_posting = FALSE]
              ELSE usr
    /\ mIn' = << >>
    /\ mOut' = << >>
    /\ mPc' = "recv"
    /\ UNCHANGED <<cycVars, pipeVars, fanVars, rbVars>>

ModNext == ModRecv \/ ModProcess \/ ModSend

ModSpec == ModInit /\ [][ModNext]_vars

(***************************************************************************)
(* Properties of the moderation stage (ModSpec).                          *)
(***************************************************************************)
ModUsersOf(batch) == {batch[k][1] : k \in DOMAIN batch}

C5_Inv ==
    \A u \in {usr} \cup ModUsersOf(mIn) \cup ModUsersOf(mOut) :
        u.sus_strike_count >= TerminationThreshold => u.is_terminated

C5_Step ==
    /\ usr'.sus_strike_count >= usr.sus_strike_count
    /\ usr.is_terminated => usr'.is_terminated
    /\ mPc = "process" =>
          \A k \in DOMAIN mIn :
              /\ mOut'[k][1].sus_strike_count >= mIn[k][1].sus_strike_count
              /\ mIn[k][1].is_terminated => mOut'[k][1].is_terminated

(* C5: across the moderation evaluations of a user, sus_strike_count never *)
(* decreases, every state with sus_strike_count >= 3 has is_terminated     *)
(* true, and is_terminated is never reset once it is true.                 *)
C5_StrikesMonotoneAndTerminal == [](C5_Inv) /\ [][C5_Step]_vars

(* A terminated user was evaluated again and took one more strike. *)
C5_Witness ==
    /\ usr.is_terminated
    /\ usr.sus_strike_count > TerminationThreshold

(* Pack x was suspended by the evaluation of this batch. *)
SuspendedInBatch(x) ==
    /\ mOut[x][1].is_suspended
    /\ \/ ~mIn[x][1].is_suspended
       \/ mOut[x][1].sus_strike_count > mIn[x][1].sus_strike_count

AuthoredIn(feed, uid) == \E n \in DOMAIN feed : feed[n].uid = uid

(* C6: once the whole batch is processed, the feed of no other member      *)
(* holds content authored by a user suspended during this batch, wherever  *)
(* that user stands in the batch.                                          *)
C6_CrossPurge ==
    mPc = "send" =>
        \A x, k \in DOMAIN mOut :
            (x # k /\ SuspendedInBatch(x)) =>
                ~AuthoredIn(mOut[k][1].newsfeed, mOut[x][1].uid)

(* A member placed before the suspended user held content of that user. *)
C6_Witness ==
    /\ mPc = "send"
    /\ \E x, k \in DOMAIN mOut :
          /\ k < x
          /\ SuspendedInBatch(x)
          /\ AuthoredIn(mIn[k][1].newsfeed, mIn[x][1].uid)
          /\ mOut[k][1].newsfeed # << >>

(* C24: in every evaluation of a batch the strike count of a user whose
   bad_message_posting is true goes up by exactly one and that of a user
   whose bad_message_posting is false stays as it is, whether or not the
   user is suspended or terminated when it is evaluated; and every user
   leaves the moderation stage with the bad_message_posting it came with. *)
C24_StrikePerViolation ==
    mPc = "send" => \A k \in DOMAIN mIn :
        /\ mOut[k][1].uid = mIn[k][1].uid
        /\ mOut[k][1].sus_strike_count =
               mIn[k][1].sus_strike_count
                 + (IF mIn[k][1].bad_message_posting THEN 1 ELSE 0)
        /\ mOut[k][1].bad_message_posting = mIn[k][1].bad_message_posting

(* A user that is already terminated and suspended is evaluated with
   bad_message_posting true, and one with bad_message_posting false is
   evaluated in the same batch. *)
C24_Witness ==
    /\ mPc = "send"
    /\ \E k \in DOMAIN mIn :
          /\ mIn[k][1].bad_message_posting
          /\ mIn[k][1].is_terminated /\ mIn[k][1].is_suspended
          /\ mOut[k][1].sus_strike_count = mIn[k][1].sus_strike_count + 1
    /\ \E k \in DOMAIN mIn : ~mIn[k][1].bad_message_posting

(* The user of pack k violates in this batch and, once the cooldowns are  *)
(* cleared, is flagged.                                                    *)
FlaggedAfterCooldown(k) ==
    /\ mIn[k][1].is_flagged
    /\ ~(Abs(mIn[k][3] - mIn[k][1].flagged_time) > CooldownTicks)

(* C17: one evaluation of a violating user: not flagged after the cooldown *)
(* clearing, it becomes flagged and suspended, both timestamps are the     *)
(* batch timestamp and the strike count grows by 1; already flagged, it    *)
(* becomes suspended, suspended_time is the batch timestamp, the strike    *)
(* count grows by 1 and flagged_time is unchanged.                         *)
C17_StrikeFrame ==
    mPc = "send" =>
        \A k \in DOMAIN mIn :
            mIn[k][1].bad_message_posting =>
                LET u == mIn[k][1]
                    v == mOut[k][1]
                    t == mIn[k][3]
                IN  /\ v.is_flagged /\ v.is_suspended
                    /\ v.suspended_time = t
                    /\ v.sus_strike_count = u.sus_strike_count + 1
                    /\ v.flagged_time =
                          IF FlaggedAfterCooldown(k) THEN u.flagged_time ELSE t

(* A flagged user violated again within the cooldown, at a later time. *)
C17_Witness ==
    /\ mPc = "send"
    /\ \E k \in DOMAIN mIn :
          /\ mIn[k][1].bad_message_posting
          /\ FlaggedAfterCooldown(k)
          /\ mIn[k][3] # mIn[k][1].flagged_time
          /\ mOut[k][1].sus_strike_count = mIn[k][1].sus_strike_count + 1

(* C18: in one evaluation is_suspended (is_flagged) is cleared when more   *)
(* than 0.5 has elapsed from suspended_time (flagged_time) to the batch    *)
(* timestamp and kept when at most 0.5 has elapsed; the clearing comes     *)
(* before the violation is evaluated, so that a violating user whose flag  *)
(* has expired gets a fresh flagged_time and one whose flag has not        *)
(* expired keeps its flagged_time.                                         *)
C18_CooldownClearing ==
    mPc = "send" =>
        \A k \in DOMAIN mIn :
            LET u == mIn[k][1]
                v == mOut[k][1]
                t == mIn[k][3]
                es == t - u.suspended_time
                ef == t - u.flagged_time
            IN  /\ (~u.bad_message_posting /\ u.is_suspended) =>
                      /\ es > CooldownTicks => ~v.is_suspended
                      /\ (0 <= es /\ es <= CooldownTicks) => v.is_suspended
                /\ (~u.bad_message_posting /\ u.is_flagged) =>
                      /\ ef > CooldownTicks => ~v.is_flagged
                      /\ (0 <= ef /\ ef <= CooldownTicks) => v.is_flagged
                /\ (u.bad_message_posting /\ u.is_flagged) =>
                      /\ ef > CooldownTicks =>
                            v.is_flagged /\ v.flagged_time = t
                      /\ (0 <= ef /\ ef <= CooldownTicks) =>
                            v.flagged_time = u.flagged_time

(* A user whose flag had expired violated and was flagged afresh. *)
C18_Witness ==
    /\ mPc = "send"
    /\ \E k \in DOMAIN mIn :
          /\ mIn[k][1].bad_message_posting
          /\ mIn[k][1].is_flagged
          /\ mIn[k][3] - mIn[k][1].flagged_time > CooldownTicks
          /\ mOut[k][1].flagged_time = mIn[k][3]
          /\ mOut[k][1].flagged_time # mIn[k][1].flagged_time

(***************************************************************************)
(* The worker cycle.                                                       *)
(***************************************************************************)

(* sorted(..., reverse=True): a stable sort, Before(a, b) meaning that the *)
(* key of a is strictly greater than the key of b; elements with equal     *)
(* keys keep their order.                                                  *)
SortedReverse(s, Before(_, _)) ==
    LET pos(i) == 1 + Cardinality({j \in DOMAIN s :
                        \/ Before(s[j], s[i])
                        \/ (~Before(s[i], s[j]) /\ j < i)})
    IN  [p \in DOMAIN s |-> s[CHOOSE i \in DOMAIN s : pos(i) = p]]

ByTime(a, b) == a.time > b.time

(* agent_process.py line 46: reshared_original_id == np.nan.  A comparison *)
(* with NaN is false for every operand, a NaN included.                    *)
EqualsNpNan(rid) == FALSE

(* Lines 45-54: the keys of message_filter_dict after the loop.  A dict    *)
(* finds a key by identity or equality: an id by its value, a NaN object   *)
(* only by its identity.                                                   *)
DictKeys(sorted_messages) ==
    {sorted_messages[i].rid : i \in {j \in DOMAIN sorted_messages :
                                      ~EqualsNpNan(sorted_messages[j].rid)}}

(* Lines 52 and 54: weight_dict[key], the number of messages of the key. *)
WeightDict(sorted_messages, key) ==
    Cardinality({i \in DOMAIN sorted_messages :
                    /\ ~EqualsNpNan(sorted_messages[i].rid)
                    /\ sorted_messages[i].rid = key})

(* MessageFilterValues with the dict overwritten by every later message. *)
RECURSIVE MessageFilterValues_KeepLast(_, _)
MessageFilterValues_KeepLast(sorted_messages, i) ==
    IF i > Len(sorted_messages)
    THEN << >>
    ELSE LET message == sorted_messages[i]
             rest == MessageFilterValues_KeepLast(sorted_messages, i + 1)
         IN  IF ~EqualsNpNan(message.rid)
                /\ \A j \in (i + 1)..Len(sorted_messages) :
                       sorted_messages[j].rid # message.rid
             THEN <<message>> \o rest
             ELSE rest

(* Lines 45-51: list(message_filter_dict.values()), the first message of   *)
(* every key in the order of sorted_messages, from message i on.           *)
RECURSIVE MessageFilterValues(_, _)
MessageFilterValues(sorted_messages, i) ==
    IF i > Len(sorted_messages)
    THEN << >>
    ELSE LET message == sorted_messages[i]
             rest == MessageFilterValues(sorted_messages, i + 1)
         IN  IF ~EqualsNpNan(message.rid)
                /\ \A j \in 1..(i - 1) :
                       sorted_messages[j].rid # message.rid
             THEN <<message>> \o rest
             ELSE rest

(* Lines 46-47: nan_parents. *)
NanParents(sorted_messages) ==
    SelectSeq(sorted_messages, LAMBDA message : EqualsNpNan(message.rid))

(* Lines 52, 54 and 61: weight_dict as left by the loop, and               *)
(* weight_dict.get(rid, 0) on it.                                          *)
WeightDictOf(sorted_messages) ==
    [key \in DictKeys(sorted_messages) |-> WeightDict(sorted_messages, key)]

WeightGet(weight_dict, rid) ==
    IF rid \in DOMAIN weight_dict THEN weight_dict[rid] ELSE 0

(* Lines 56-64: the two sorts of new_newsfeed. *)
SortNewsfeed(new_newsfeed, weight_dict) ==
    LET ByWeightTime(a, b) ==
            LET wa == WeightGet(weight_dict, a.rid)
                wb == WeightGet(weight_dict, b.rid)
            IN  wa > wb \/ (wa = wb /\ a.time > b.time)
    IN  SortedReverse(SortedReverse(new_newsfeed, ByTime), ByWeightTime)

(* Lines 42-56: the loop over sorted_messages and the recombination. *)
FilterSorted(sorted_messages) ==
    SortNewsfeed(MessageFilterValues(sorted_messages, 1)
                     \o NanParents(sorted_messages),
                 WeightDictOf(sorted_messages))

(* Lines 40-64 of run_agent: the new newsfeed of raw_messages. *)
MergeFeed(raw_messages) == FilterSorted(SortedReverse(raw_messages, ByTime))

(* Agent.make_actions with the cut-off line left out. *)
make_actions_NoCut(newsfeed) == newsfeed

(* simsom_core.py lines 121-149, Agent.make_actions: what it leaves in     *)
(* self.newsfeed (line 147).  The produced actions do not touch the feed.  *)
make_actions(newsfeed) == SubSeq(newsfeed, 1, Min(cut_off, Len(newsfeed)))

(* make_actions of the user class of agent_process.py and of the           *)
(* FilCompliant package: step (c) of the worker, the cut-off truncation.   *)
UserMakeActions(newsfeed) == SubSeq(newsfeed, 1, Min(cut_off, Len(newsfeed)))

(***************************************************************************)
(* CycleSpec: one worker of one variant handles work item after work item *)
(* for one agent, whose feed starts empty.                                *)
(***************************************************************************)
Keys == {"x"}

MergeMsgs == {Message(1, t, r) : t \in 1..MaxMsgTime, r \in Keys \cup NaNs}

PlainMsgs == {Message(1, 1, "x")}

(* Messages that hold one NaN object are one instance. *)
OneInstancePerNaN(raw) ==
    \A i, j \in DOMAIN raw :
        (raw[i].rid \in NaNs /\ raw[i].rid = raw[j].rid) => raw[i] = raw[j]

CycleInit ==
    /\ wVariant \in {"run_agent", "run_agent_handler", "reboot"}
    /\ wFeed = << >> /\ wPc = "recv"
    /\ wIn = << >> /\ wRaw = << >> /\ wNew = << >>
    /\ ModIdle
    /\ PipeIdle
    /\ FanIdle
    /\ SchedIdle

(* The blocking recv of every worker loop: a work item for the agent      *)
(* arrives (agent_process.py 25-35, agent_handler_proc.py 21-31,           *)
(* simsom_core.py 369-378).                                                *)
WorkerRecv ==
    \E in_messages \in SeqsUpTo(IF wVariant = "run_agent"
                                 THEN MergeMsgs ELSE PlainMsgs, MaxIn) :
        /\ wPc = "recv"
        /\ OneInstancePerNaN(in_messages \o wFeed)
        /\ wIn' = in_messages
        /\ wPc' = "work"
        /\ UNCHANGED <<wVariant, wFeed, wRaw, wNew, modVars, pipeVars, fanVars, rbVars>>

(* agent_process.py lines 37-70: the merge and make_actions of run_agent. *)
RunAgentCycle ==
    /\ wPc = "work" /\ wVariant = "run_agent"
    /\ wRaw' = wIn \o wFeed
    /\ wNew' = MergeFeed(wRaw')
    /\ wFeed' = UserMakeActions(wNew')
    /\ wPc' = "send"
    /\ UNCHANGED <<wVariant, wIn, modVars, pipeVars, fanVars, rbVars>>

(* agent_handler_proc.py lines 33-40: run_agent_handler. *)
RunAgentHandlerCycle ==
    /\ wPc = "work" /\ wVariant = "run_agent_handler"
    /\ wRaw' = wIn \o wFeed
    /\ wNew' = wRaw'
    /\ wFeed' = UserMakeActions(wNew')
    /\ wPc' = "send"
    /\ UNCHANGED <<wVariant, wIn, modVars, pipeVars, fanVars, rbVars>>

(* simsom_core.py lines 377-384: the handler loop of main. *)
RebootHandlerCycle ==
    /\ wPc = "work" /\ wVariant = "reboot"
    /\ wRaw' = wIn \o wFeed
    /\ wNew' = wRaw'
    /\ wFeed' = make_actions(wNew')
    /\ wPc' = "send"
    /\ UNCHANGED <<wVariant, wIn, modVars, pipeVars, fanVars, rbVars>>

(* make_actions raises (agent_process.py line 70, agent_handler_proc.py   *)
(* line 37, simsom_core.py line 382): no worker loop has a try around the  *)
(* call and Agent.make_actions has none inside, so the exception leaves    *)
(* the while loop and ends the process before the send.                    *)
MakeActionsRaises ==
    /\ wPc = "work"
    /\ wRaw' = wIn \o wFeed
    /\ wNew' = IF wVariant = "run_agent" THEN MergeFeed(wRaw') ELSE wRaw'
    /\ wPc' = "aborted"
    /\ UNCHANGED <<wVariant, wFeed, wIn, modVars, pipeVars, fanVars, rbVars>>

(* The send that ends the iteration (agent_process.py 76,                 *)
(* agent_handler_proc.py 43, simsom_core.py 386); the locals of the        *)
(* iteration are gone when the loop is back at its recv.                   *)
WorkerSend ==
    /\ wPc = "send"
    /\ wPc' = "recv"
    /\ wIn' = << >> /\ wRaw' = << >> /\ wNew' = << >>
    /\ UNCHANGED <<wVariant, wFeed, modVars, pipeVars, fanVars, rbVars>>

CycleNext ==
    \/ WorkerRecv
    \/ RunAgentCycle
    \/ RunAgentHandlerCycle
    \/ RebootHandlerCycle
    \/ MakeActionsRaises
    \/ WorkerSend

CycleSpec == CycleInit /\ [][CycleNext]_vars

(***************************************************************************)
(* Properties of the worker cycle (CycleSpec).                            *)
(***************************************************************************)

(* C8: the feed of the agent in the result a worker emits is no longer     *)
(* than the cut-off, in every worker variant.                              *)
C8_FeedWithinCutoff ==
    /\ Len(wFeed) <= cut_off
    /\ wPc = "send" => Len(wFeed) = Min(cut_off, Len(wNew))

(* A cycle whose feed exceeded the cut-off before make_actions. *)
C8_Witness ==
    /\ wPc = "send"
    /\ wVariant = "reboot"
    /\ Len(wNew) > cut_off
    /\ Len(wFeed) = cut_off

InstancesOf(raw, rid) == {i \in DOMAIN raw : raw[i].rid = rid}

(* C9: in a merged feed no two entries share a reshared_original_id that   *)
(* is an id, and the entry kept for an id is a most recent message of      *)
(* that id in in_messages + newsfeed.                                      *)
C9_DedupKeepsMostRecent ==
    (wPc = "send" /\ wVariant = "run_agent") =>
        /\ \A i, j \in DOMAIN wNew :
              (i # j /\ wNew[i].rid \notin NaNs) => wNew[i].rid # wNew[j].rid
        /\ \A i \in DOMAIN wNew :
              wNew[i].rid \notin NaNs =>
                  /\ \E n \in InstancesOf(wRaw, wNew[i].rid) : wRaw[n] = wNew[i]
                  /\ \A n \in InstancesOf(wRaw, wNew[i].rid) :
                        wRaw[n].time <= wNew[i].time
        /\ \A n \in DOMAIN wRaw :
              wRaw[n].rid \notin NaNs =>
                  \E i \in DOMAIN wNew : wNew[i].rid = wRaw[n].rid

(* An id came in twice with different creation times, the older one first. *)
C9_Witness ==
    /\ wPc = "send"
    /\ wVariant = "run_agent"
    /\ \E m, n \in DOMAIN wRaw :
          /\ m < n
          /\ wRaw[m].rid \notin NaNs
          /\ wRaw[m].rid = wRaw[n].rid
          /\ wRaw[m].time < wRaw[n].time

(* The weight the merge is meant to give a message: the number of          *)
(* instances of its id for a reshare, 0 for an original.                   *)
IntendedWeight(raw, msg) ==
    IF msg.rid \in NaNs THEN 0 ELSE Cardinality(InstancesOf(raw, msg.rid))

(* C10: the merged feed is ordered by (weight descending, creation time    *)
(* descending), a reshare weighing the number of instances of its id and   *)
(* an original 0, so that no original stands before a reshare.             *)
C10_WeightOrder ==
    (wPc = "send" /\ wVariant = "run_agent") =>
        \A i, j \in DOMAIN wNew :
            i < j =>
                LET wi == IntendedWeight(wRaw, wNew[i])
                    wj == IntendedWeight(wRaw, wNew[j])
                IN  wi > wj \/ (wi = wj /\ wNew[i].time >= wNew[j].time)

(* The positions of the originals of a list of messages. *)
Originals(msgs) == {i \in DOMAIN msgs : msgs[i].rid \in NaNs}

(* C19: the merge neither deduplicates nor drops originals: every original *)
(* of in_messages + newsfeed stands in the merged feed before truncation,  *)
(* and a concatenation with k originals yields k original entries.         *)
C19_OriginalsKept ==
    (wPc = "send" /\ wVariant = "run_agent") =>
        /\ \A i \in Originals(wRaw) : \E j \in DOMAIN wNew : wNew[j] = wRaw[i]
        /\ Cardinality(Originals(wNew)) = Cardinality(Originals(wRaw))

C12_Step ==
    /\ (wPc = "work" /\ wPc' # "work") => wPc' = "send"
    /\ (wPc = "send" /\ wPc' # "send") => wPc' = "recv"

(* C12: a failure of the action-generation step never aborts the worker:   *)
(* whatever the outcome of make_actions, the work on an item ends with a   *)
(* result to emit, the result is emitted and the worker is back at its     *)
(* receive for the next item.                                              *)
C12_FailureDoesNotAbort == [](wPc # "aborted") /\ [][C12_Step]_vars

(***************************************************************************)
(* The pipeline.  A channel is the FIFO of the messages one process sent   *)
(* to another and the receiver has not yet received; send and isend put    *)
(* the message in the channel, an isend request completes later.           *)
(***************************************************************************)
Sigterm == [kind |-> "sigterm", body |-> << >>]

BatchMsg(packs) == [kind |-> "batch", body |-> packs]

PackMsg(pack) == [kind |-> "pack", body |-> pack]

Front(q) == SubSeq(q, 1, Len(q) - 1)

(* The elements of a set of agents as a sequence, by ascending uid. *)
ByUid(S) ==
    CHOOSE q \in [1..Cardinality(S) -> S] :
        \A i, j \in DOMAIN q : i < j => q[i].uid < q[j].uid

(* The moderation fields an agent of the initial population may carry; at  *)
(* most one agent of a population is not clean.                            *)
Profiles == {"clean", "bad", "suspended", "terminated"}

AgentOf(uid, profile) ==
    CASE profile = "clean" -> NewUser(uid)
      [] profile = "bad" -> [NewUser(uid) EXCEPT !.bad_message_posting = TRUE]
      [] profile = "suspended" ->
            [NewUser(uid) EXCEPT !.is_flagged = TRUE, !.is_suspended = TRUE,
                                 !.sus_strike_count = 1]
      [] profile = "terminated" ->
            [NewUser(uid) EXCEPT !.is_flagged = TRUE, !.is_suspended = TRUE,
                                 !.is_terminated = TRUE,
                                 !.sus_strike_count = TerminationThreshold]

PipeInit ==
    /\ pVariant \in {"simsom", "FilCompliant"}
    /\ \E prof \in [Agents -> Profiles] :
          /\ pVariant = "FilCompliant" => \A a \in Agents : prof[a] = "clean"
          /\ Cardinality({a \in Agents : prof[a] # "clean"}) <= 1
          /\ dmPool = {AgentOf(a, prof[a]) : a \in Agents}
    /\ dmSent = 0 /\ dmStop = FALSE
    /\ chPF = << >> /\ chPM = << >>
    /\ chW = [w \in Workers |-> << >>] /\ chDM = [w \in Workers |-> << >>]
    /\ pcPF = "recv" /\ pcPM = "recv" /\ pcW = [w \in Workers |-> "recv"]
    /\ users_packs_batch = << >> /\ active_user_packs = << >>
    /\ dispatch_requests = 0 /\ pmNext = 1 /\ pmBatchNo = 0
    /\ sentLog = << >> /\ sigW = [w \in Workers |-> 0] /\ sigPM = 0
    /\ pmDropped = {} /\ pmExpected = 0 /\ nResults = 0
    /\ ModIdle
    /\ CycleIdle
    /\ FanIdle
    /\ SchedIdle

(* The clock of the data manager: the first batch is stamped 0, a later   *)
(* one MaxTime.                                                            *)
BatchTime == IF dmSent = 0 THEN 0 ELSE MaxTime

(* The data manager emits a batch of the first agents it holds: packs      *)
(* (agent, in_messages, current_time) for the policy filter of simsom,     *)
(* work items (agent, in_messages) for the pool manager of FilCompliant.   *)
DMSend ==
    \E batch_size \in 1..Cardinality(dmPool), t \in {BatchTime} :
      LET S == {a \in dmPool :
                  Cardinality({b \in dmPool : b.uid <= a.uid}) <= batch_size}
      IN
        /\ ~dmStop /\ dmSent < MaxBatches
        /\ dmPool' = dmPool \ S
        /\ dmSent' = dmSent + 1
        /\ IF pVariant = "simsom"
           THEN /\ chPF' = Append(chPF, BatchMsg(
                        [k \in 1..Cardinality(S) |-> <<ByUid(S)[k], << >>, t>>]))
                /\ UNCHANGED chPM
           ELSE /\ chPM' = Append(chPM, BatchMsg(
                        [k \in 1..Cardinality(S) |-> <<ByUid(S)[k], << >>>>]))
                /\ UNCHANGED chPF
        /\ UNCHANGED <<pVariant, dmStop, chW, chDM, pcPF, pcPM, pcW,
                       users_packs_batch, active_user_packs,
                       dispatch_requests, pmNext, pmBatchNo, sentLog, sigW,
                       sigPM, pmDropped, pmExpected, nResults,
                       modVars, cycVars, fanVars, rbVars>>

(* What stands for a batch when there is no work: None or the empty       *)
(* string.                                                                 *)
NoneMsg == [kind |-> "none", body |-> << >>]

EmptyStrMsg == [kind |-> "empty_str", body |-> << >>]

(* The data manager holds no agent when a batch is due and emits an empty  *)
(* or null batch.                                                          *)
DMSendEmpty ==
    \E msg \in {NoneMsg, EmptyStrMsg} :
        /\ dmPool = {}
        /\ ~dmStop /\ dmSent < MaxBatches
        /\ dmSent' = dmSent + 1
        /\ IF pVariant = "simsom"
           THEN chPF' = Append(chPF, msg) /\ UNCHANGED chPM
           ELSE chPM' = Append(chPM, msg) /\ UNCHANGED chPF
        /\ UNCHANGED <<pVariant, dmPool, dmStop, chW, chDM, pcPF, pcPM, pcW,
                       users_packs_batch, active_user_packs,
                       dispatch_requests, pmNext, pmBatchNo, sentLog, sigW,
                       sigPM, pmDropped, pmExpected, nResults,
                       modVars, cycVars, fanVars, rbVars>>

(* The data manager emits the sentinel. *)
DMStop ==
    /\ ~dmStop
    /\ dmStop' = TRUE
    /\ IF pVariant = "simsom"
       THEN chPF' = Append(chPF, Sigterm) /\ UNCHANGED chPM
       ELSE chPM' = Append(chPM, Sigterm) /\ UNCHANGED chPF
    /\ UNCHANGED <<pVariant, dmPool, dmSent, chW, chDM, pcPF, pcPM, pcW,
                   users_packs_batch, active_user_packs, dispatch_requests,
                   pmNext, pmBatchNo, sentLog, sigW, sigPM, pmDropped,
                   pmExpected, nResults, modVars, cycVars, fanVars, rbVars>>

(* The data manager receives a result and holds the agent again. *)
DMRecv(w) ==
    /\ chDM[w] # << >>
    /\ dmPool' = dmPool \cup {Head(chDM[w])[1]}
    /\ chDM' = [chDM EXCEPT ![w] = Tail(@)]
    /\ UNCHANGED <<pVariant, dmSent, dmStop, chPF, chPM, chW, pcPF, pcPM, pcW,
                   users_packs_batch, active_user_packs, dispatch_requests,
                   pmNext, pmBatchNo, sentLog, sigW, sigPM, pmDropped,
                   pmExpected, nResults, modVars, cycVars, fanVars, rbVars>>

(* A sentinel that is matched before the messages sent earlier. *)
SendSigterm_Overtaking(q) == <<Sigterm>> \o q

(* comm_world.send("sigterm", dest=...) (policy_filter_process.py line 76, *)
(* agent_pool_manager_process.py line 75, handler_pool_manager_proc.py     *)
(* line 62): MPI matches the messages of one sender to one receiver in the *)
(* order they were sent, the sentinel comes after what was sent before it. *)
SendSigterm(q) == Append(q, Sigterm)

(* run_policy_filter lines 69-77: the sentinel is received and forwarded. *)
PFSigterm ==
    /\ pcPF = "recv" /\ chPF # << >> /\ Head(chPF).kind = "sigterm"
    /\ chPF' = Tail(chPF)
    /\ chPM' = SendSigterm(chPM)
    /\ sigPM' = sigPM + 1
    /\ pcPF' = "done"
    /\ UNCHANGED <<pVariant, dmPool, dmSent, dmStop, chW, chDM, pcPM, pcW,
                   users_packs_batch, active_user_packs, dispatch_requests,
                   pmNext, pmBatchNo, sentLog, sigW, pmDropped, pmExpected,
                   nResults, modVars, cycVars, fanVars, rbVars>>

(* run_policy_filter lines 69-95: a batch is received, moderated and sent on. *)
PFBatch ==
    /\ pcPF = "recv" /\ chPF # << >> /\ Head(chPF).kind = "batch"
    /\ chPF' = Tail(chPF)
    /\ chPM' = Append(chPM, BatchMsg(ProcessBatch(Head(chPF).body, 1)))
    /\ UNCHANGED <<pVariant, dmPool, dmSent, dmStop, chW, chDM, pcPF, pcPM, pcW,
                   users_packs_batch, active_user_packs, dispatch_requests,
                   pmNext, pmBatchNo, sentLog, sigW, sigPM, pmDropped,
                   pmExpected, nResults, modVars, cycVars, fanVars, rbVars>>

(* run_policy_filter lines 69-80 on None: None is not "sigterm" and        *)
(* enumerate(None) raises TypeError; the exception is not caught and the   *)
(* process ends without a send.                                            *)
PFNone ==
    /\ pcPF = "recv" /\ chPF # << >> /\ Head(chPF).kind = "none"
    /\ chPF' = Tail(chPF)
    /\ pcPF' = "crashed"
    /\ UNCHANGED <<pVariant, dmPool, dmSent, dmStop, chPM, chW, chDM, pcPM, pcW,
                   users_packs_batch, active_user_packs, dispatch_requests,
                   pmNext, pmBatchNo, sentLog, sigW, sigPM, pmDropped,
                   pmExpected, nResults, modVars, cycVars, fanVars, rbVars>>

(* run_policy_filter lines 69-95 on "": the loop over the empty string has *)
(* no iteration and the string is sent on as the processed batch.          *)
PFEmptyStr ==
    /\ pcPF = "recv" /\ chPF # << >> /\ Head(chPF).kind = "empty_str"
    /\ chPF' = Tail(chPF)
    /\ chPM' = Append(chPM, EmptyStrMsg)
    /\ UNCHANGED <<pVariant, dmPool, dmSent, dmStop, chW, chDM, pcPF, pcPM, pcW,
                   users_packs_batch, active_user_packs, dispatch_requests,
                   pmNext, pmBatchNo, sentLog, sigW, sigPM, pmDropped,
                   pmExpected, nResults, modVars, cycVars, fanVars, rbVars>>

(* IsActive with the test of is_terminated left out. *)
IsActive_SuspendedOnly(user) == ~user.is_suspended

(* agent_pool_manager_process.py line 46: the filter of active_user_packs. *)
IsActive(user) == ~(user.is_suspended \/ user.is_terminated)

(* agent_handlers_ranks one rank too low: the manager's own rank included. *)
agent_handlers_ranks_OffByOne == 0..(NumWorkers - 1)

(* Line 18 (line 16 of handler_pool_manager_proc.py): agent_handlers_ranks. *)
agent_handlers_ranks == Workers

(* The shutdown loop one rank short. *)
ShutdownRanks_Short == 1..(NumWorkers - 1)

(* Line 74 (line 61): range(rank_index["agent_handler"], size). *)
ShutdownRanks == Workers

(* Lines 29-41 (27-34): the sentinel ends the loop of the pool manager. *)
PMRecvSigterm ==
    /\ pcPM = "recv" /\ chPM # << >> /\ Head(chPM).kind = "sigterm"
    /\ chPM' = Tail(chPM)
    /\ users_packs_batch' = << >>
    /\ pmNext' = 1
    /\ pcPM' = IF ShutdownRanks = {} THEN "done" ELSE "shutdown"
    /\ UNCHANGED <<pVariant, dmPool, dmSent, dmStop, chPF, chW, chDM, pcPF, pcW,
                   active_user_packs, dispatch_requests, pmBatchNo, sentLog,
                   sigW, sigPM, pmDropped, pmExpected, nResults,
                   modVars, cycVars, fanVars, rbVars>>

(* agent_pool_manager_process.py lines 29-37: None or "" is skipped with a *)
(* warning; handler_pool_manager_proc.py lines 27-58: the while loop over  *)
(* a falsy batch has no iteration and waitall of no request returns.       *)
PMSkipEmpty ==
    /\ pcPM = "recv" /\ chPM # << >>
    /\ Head(chPM).kind \in {"none", "empty_str"}
    /\ chPM' = Tail(chPM)
    /\ users_packs_batch' = << >>
    /\ active_user_packs' = << >>
    /\ sentLog' = << >>
    /\ UNCHANGED <<pVariant, dmPool, dmSent, dmStop, chPF, chW, chDM, pcPF,
                   pcPM, pcW, dispatch_requests, pmNext, pmBatchNo, sigW,
                   sigPM, pmDropped, pmExpected, nResults, modVars, cycVars, fanVars, rbVars>>

(* agent_pool_manager_process.py lines 29-50: run_agent_pool_manager      *)
(* receives a batch and keeps the packs of the active users.               *)
PoolManagerRecvBatch ==
    /\ pVariant = "simsom"
    /\ pcPM = "recv" /\ chPM # << >> /\ Head(chPM).kind = "batch"
    /\ chPM' = Tail(chPM)
    /\ LET batch == Head(chPM).body
           active == SelectSeq(batch, LAMBDA user_pack : IsActive(user_pack[1]))
       IN  /\ users_packs_batch' = batch
           /\ active_user_packs' = active
           /\ pcPM' = IF active = << >> THEN "recv" ELSE "dispatch"
           /\ pmDropped' = pmDropped \cup
                   {batch[k][1].uid : k \in {j \in DOMAIN batch :
                        /\ batch[j][1].is_suspended
                        /\ ~batch[j][1].is_terminated
                        /\ ~IsActive(batch[j][1])}}
           /\ pmExpected' = IF active = << >> THEN pmExpected
                                             ELSE pmExpected + Len(batch)
    /\ dispatch_requests' = 0
    /\ sentLog' = << >>
    /\ pmBatchNo' = pmBatchNo + 1
    /\ UNCHANGED <<pVariant, dmPool, dmSent, dmStop, chPF, chW, chDM, pcPF, pcW,
                   pmNext, sigW, sigPM, nResults, modVars, cycVars, fanVars, rbVars>>

(* handler_pool_manager_proc.py lines 27-39: run_handler_pool_manager     *)
(* receives a batch; every pack of it is to be sent.                       *)
HandlerPoolManagerRecvBatch ==
    /\ pVariant = "FilCompliant"
    /\ pcPM = "recv" /\ chPM # << >> /\ Head(chPM).kind = "batch"
    /\ chPM' = Tail(chPM)
    /\ users_packs_batch' = Head(chPM).body
    /\ active_user_packs' = Head(chPM).body
    /\ pcPM' = IF Head(chPM).body = << >> THEN "recv" ELSE "dispatch"
    /\ pmExpected' = pmExpected + Len(Head(chPM).body)
    /\ dispatch_requests' = 0
    /\ sentLog' = << >>
    /\ pmBatchNo' = pmBatchNo + 1
    /\ UNCHANGED <<pVariant, dmPool, dmSent, dmStop, chPF, chW, chDM, pcPF, pcW,
                   pmNext, sigW, sigPM, pmDropped, nResults,
                   modVars, cycVars, fanVars, rbVars>>

(* Lines 52-68 (39-55): one iteration of the dispatch loop: pop the last  *)
(* pack, pick a handler at random, isend.                                  *)
PMDispatch ==
    \E handler_rank \in agent_handlers_ranks :
        /\ pcPM = "dispatch"
        /\ LET user_pack == active_user_packs[Len(active_user_packs)]
           IN  /\ chW' = [chW EXCEPT ![handler_rank] = Append(@, PackMsg(user_pack))]
               /\ sentLog' = Append(sentLog,
                       [batch |-> pmBatchNo, uid |-> user_pack[1].uid,
                        dest |-> handler_rank,
                        is_suspended |-> user_pack[1].is_suspended,
                        is_terminated |-> user_pack[1].is_terminated])
        /\ active_user_packs' = Front(active_user_packs)
        /\ dispatch_requests' = dispatch_requests + 1
        /\ pcPM' = IF Len(active_user_packs) = 1 THEN "wait" ELSE "dispatch"
        /\ UNCHANGED <<pVariant, dmPool, dmSent, dmStop, chPF, chPM, chDM, pcPF,
                       pcW, users_packs_batch, pmNext, pmBatchNo, sigW, sigPM,
                       pmDropped, pmExpected, nResults, modVars, cycVars, fanVars, rbVars>>

(* The MPI library completes one of the isend requests of the manager. *)
MPIComplete ==
    /\ dispatch_requests > 0
    /\ dispatch_requests' = dispatch_requests - 1
    /\ UNCHANGED <<pVariant, dmPool, dmSent, dmStop, chPF, chPM, chW, chDM,
                   pcPF, pcPM, pcW, users_packs_batch, active_user_packs,
                   pmNext, pmBatchNo, sentLog, sigW, sigPM, pmDropped,
                   pmExpected, nResults, modVars, cycVars, fanVars, rbVars>>

(* waitall that returns with requests still pending. *)
Waitall_NoJoin(requests) == TRUE

(* Line 71 (58): MPI.Request.waitall returns once every request of the     *)
(* list is complete.                                                       *)
Waitall(requests) == requests = 0

(* Line 71 (58): MPI.Request.waitall(dispatch_requests) returns. *)
PMWaitall ==
    /\ pcPM = "wait"
    /\ Waitall(dispatch_requests)
    /\ pcPM' = "recv"
    /\ sentLog' = << >>
    /\ UNCHANGED <<pVariant, dmPool, dmSent, dmStop, chPF, chPM, chW, chDM,
                   pcPF, pcW, users_packs_batch, active_user_packs,
                   dispatch_requests, pmNext, pmBatchNo, sigW, sigPM,
                   pmDropped, pmExpected, nResults, modVars, cycVars, fanVars, rbVars>>

(* Lines 73-75 (60-62): one iteration of the shutdown loop. *)
PMShutdown ==
    /\ pcPM = "shutdown"
    /\ chW' = [chW EXCEPT ![pmNext] = SendSigterm(@)]
    /\ sigW' = [sigW EXCEPT ![pmNext] = @ + 1]
    /\ pmNext' = pmNext + 1
    /\ pcPM' = IF pmNext + 1 \in ShutdownRanks THEN "shutdown" ELSE "done"
    /\ UNCHANGED <<pVariant, dmPool, dmSent, dmStop, chPF, chPM, chDM, pcPF,
                   pcW, users_packs_batch, active_user_packs,
                   dispatch_requests, pmBatchNo, sentLog, sigPM, pmDropped,
                   pmExpected, nResults, modVars, cycVars, fanVars, rbVars>>

(* agent_process.py lines 26-32 (agent_handler_proc.py 22-28): a handler  *)
(* receives the sentinel and leaves its loop.                              *)
HandlerSigterm(w) ==
    /\ pcW[w] = "recv" /\ chW[w] # << >> /\ Head(chW[w]).kind = "sigterm"
    /\ chW' = [chW EXCEPT ![w] = Tail(@)]
    /\ pcW' = [pcW EXCEPT ![w] = "done"]
    /\ UNCHANGED <<pVariant, dmPool, dmSent, dmStop, chPF, chPM, chDM, pcPF,
                   pcPM, users_packs_batch, active_user_packs,
                   dispatch_requests, pmNext, pmBatchNo, sentLog, sigW, sigPM,
                   pmDropped, pmExpected, nResults, modVars, cycVars, fanVars, rbVars>>

(* agent_process.py line 35 (agent_handler_proc.py 31):                    *)
(* "user, in_messages = user_pack" raises ValueError on a pack that is not *)
(* a pair; the exception is not caught and the process ends.               *)
HandlerUnpackError(w) ==
    /\ pcW[w] = "recv" /\ chW[w] # << >> /\ Head(chW[w]).kind = "pack"
    /\ Len(Head(chW[w]).body) # 2
    /\ chW' = [chW EXCEPT ![w] = Tail(@)]
    /\ pcW' = [pcW EXCEPT ![w] = "crashed"]
    /\ UNCHANGED <<pVariant, dmPool, dmSent, dmStop, chPF, chPM, chDM, pcPF,
                   pcPM, users_packs_batch, active_user_packs,
                   dispatch_requests, pmNext, pmBatchNo, sentLog, sigW, sigPM,
                   pmDropped, pmExpected, nResults, modVars, cycVars, fanVars, rbVars>>

(* agent_process.py lines 26-76 (agent_handler_proc.py 22-43): a handler  *)
(* receives a work item, updates the feed and sends the result.            *)
HandlerCycle(w) ==
    /\ pcW[w] = "recv" /\ chW[w] # << >> /\ Head(chW[w]).kind = "pack"
    /\ Len(Head(chW[w]).body) = 2
    /\ LET user == Head(chW[w]).body[1]
           in_messages == Head(chW[w]).body[2]
           new_newsfeed == IF pVariant = "simsom"
                           THEN MergeFeed(in_messages \o user.newsfeed)
                           ELSE in_messages \o user.newsfeed
           reply == <<[user EXCEPT !.newsfeed = UserMakeActions(new_newsfeed)],
                      << >>>>
       IN  chDM' = [chDM EXCEPT ![w] = Append(@, reply)]
    /\ chW' = [chW EXCEPT ![w] = Tail(@)]
    /\ nResults' = nResults + 1
    /\ UNCHANGED <<pVariant, dmPool, dmSent, dmStop, chPF, chPM, pcPF, pcPM,
                   pcW, users_packs_batch, active_user_packs,
                   dispatch_requests, pmNext, pmBatchNo, sentLog, sigW, sigPM,
                   pmDropped, pmExpected, modVars, cycVars, fanVars, rbVars>>

PoolManager ==
    \/ PMRecvSigterm
    \/ PMSkipEmpty
    \/ PoolManagerRecvBatch
    \/ HandlerPoolManagerRecvBatch
    \/ PMDispatch
    \/ PMWaitall
    \/ PMShutdown

Next ==
    \/ DMSend
    \/ DMSendEmpty
    \/ DMStop
    \/ \E w \in Workers : DMRecv(w)
    \/ PFSigterm
    \/ PFBatch
    \/ PFNone
    \/ PFEmptyStr
    \/ PMRecvSigterm
    \/ PMSkipEmpty
    \/ PoolManagerRecvBatch
    \/ HandlerPoolManagerRecvBatch
    \/ PMDispatch
    \/ MPIComplete
    \/ PMWaitall
    \/ PMShutdown
    \/ \E w \in Workers : HandlerSigterm(w)
    \/ \E w \in Workers : HandlerUnpackError(w)
    \/ \E w \in Workers : HandlerCycle(w)

Spec == PipeInit /\ [][Next]_vars

(* The pool manager is a process of its own: while it can take a step the  *)
(* operating system lets it take one.  Nothing is assumed of the data      *)
(* manager, the policy filter, the handlers or the MPI library.  A step of *)
(* the pool manager changes pipeline variables only.                       *)
FairSpec ==
    /\ Spec
    /\ WF_pipeVars(PoolManager)

(***************************************************************************)
(* Properties of the pipeline.                                             *)
(***************************************************************************)
PacksOf(q) == {q[k].body : k \in {j \in DOMAIN q : q[j].kind = "pack"}}

(* C1: in run_agent_pool_manager no work item sent to a worker holds an    *)
(* agent whose is_suspended or is_terminated flag is true when it is sent. *)
C1_NoInactiveDispatched ==
    pVariant = "simsom" =>
        /\ \A k \in DOMAIN sentLog :
              ~sentLog[k].is_suspended /\ ~sentLog[k].is_terminated
        /\ \A w \in Workers : \A pack \in PacksOf(chW[w]) :
              ~pack[1].is_suspended /\ ~pack[1].is_terminated

(* A batch with a suspended or terminated member, another member of which  *)
(* has been sent to a worker.                                              *)
C1_Witness ==
    /\ pVariant = "simsom"
    /\ sentLog # << >>
    /\ \E k \in DOMAIN users_packs_batch :
          users_packs_batch[k][1].is_suspended
              \/ users_packs_batch[k][1].is_terminated

(* No stage but the data manager can take a step. *)
PipelineAtRest ==
    /\ chPF = << >> \/ pcPF = "done"
    /\ pcPM = "recv" /\ chPM = << >>
    /\ dispatch_requests = 0
    /\ \A w \in Workers : chW[w] = << >> \/ pcW[w] # "recv"

(* C2: for every batch of size N with a dispatchable agent that the        *)
(* dispatcher receives, N work items are sent and, absent shutdown, N      *)
(* results are emitted: once the dispatcher waits for the sends of a batch *)
(* it has sent as many items as the batch holds, and once the stages are   *)
(* at rest the handlers have emitted a result for every agent of those     *)
(* batches.                                                                *)
C2_DispatchCompleteness ==
    pVariant = "simsom" =>
        /\ pcPM = "wait" => Len(sentLog) = Len(users_packs_batch)
        /\ (~dmStop /\ PipelineAtRest) => nResults = pmExpected

(* The uids of the agents in the batches of a channel. *)
BatchUids(q) ==
    UNION {{q[k].body[i][1].uid : i \in DOMAIN q[k].body} :
              k \in {j \in DOMAIN q : q[j].kind = "batch"}}

(* The uids of the agents some stage holds, in a variable or in flight. *)
HeldUids ==
    {a.uid : a \in dmPool}
        \cup BatchUids(chPF) \cup BatchUids(chPM)
        \cup {users_packs_batch[k][1].uid : k \in DOMAIN users_packs_batch}
        \cup UNION {{pack[1].uid : pack \in PacksOf(chW[w])} : w \in Workers}
        \cup UNION {{chDM[w][k][1].uid : k \in DOMAIN chDM[w]} : w \in Workers}

(* C7: an agent that is suspended and not terminated when its batch        *)
(* reaches the dispatcher is not removed from the pipeline by the filter:  *)
(* as long as the dispatcher runs, some stage holds the agent, so that a   *)
(* later cycle can dispatch it.                                            *)
C7_SuspendedStaysInPipeline ==
    (pVariant = "simsom" /\ pcPM \in {"recv", "dispatch", "wait"}) =>
        pmDropped \subseteq HeldUids

(* The items of the last batch the dispatcher has to send. *)
Dispatchable ==
    {k \in DOMAIN users_packs_batch :
        pVariant = "simsom" =>
            /\ ~users_packs_batch[k][1].is_suspended
            /\ ~users_packs_batch[k][1].is_terminated}

(* C3: for every batch the random dispatcher sends each dispatchable item  *)
(* once, to one worker of the pool: every send goes to a rank of the pool  *)
(* and puts the item in that worker's queue, no agent of the batch is sent *)
(* twice, and when the dispatch loop has ended every dispatchable item of  *)
(* the batch has been sent, whatever the workers chosen.                   *)
C3_EachItemOnce ==
    /\ \A k \in DOMAIN sentLog : sentLog[k].dest \in Workers
    /\ \A i, j \in DOMAIN sentLog :
          i # j => sentLog[i].uid # sentLog[j].uid
    /\ pcPM \in {"recv", "dispatch", "wait"} =>
          \A k \in DOMAIN sentLog :
              \E i \in Dispatchable :
                  users_packs_batch[i][1].uid = sentLog[k].uid
    /\ pcPM = "wait" =>
          \A i \in Dispatchable :
              \E k \in DOMAIN sentLog :
                  sentLog[k].uid = users_packs_batch[i][1].uid
    /\ pcPM = "dispatch" =>
          Len(sentLog) + Len(active_user_packs) = Cardinality(Dispatchable)

(* The dispatch loop of a batch has ended with two items sent to one       *)
(* worker, both still pending in its queue.                                *)
C3_Witness ==
    /\ pcPM = "wait"
    /\ \E i, j \in DOMAIN sentLog :
          /\ i # j
          /\ sentLog[i].dest = sentLog[j].dest
          /\ Len(chW[sentLog[i].dest]) >= 2

C4_Inv ==
    /\ sigPM <= 1
    /\ pcPF = "done" <=> sigPM = 1
    /\ \A w \in Workers : sigW[w] <= 1
    /\ pcPM = "done" => \A w \in Workers : sigW[w] = 1
    /\ pcPM \notin {"shutdown", "done"} => \A w \in Workers : sigW[w] = 0

C4_Step ==
    /\ pcPF = "done" =>
          /\ pcPF' = "done" /\ sigPM' = sigPM
          /\ Len(chPM') <= Len(chPM)
    /\ pcPM \in {"shutdown", "done"} =>
          /\ pcPM' \in {"shutdown", "done"}
          /\ pmBatchNo' = pmBatchNo /\ sentLog' = sentLog
          /\ \A w \in Workers : PacksOf(chW'[w]) \subseteq PacksOf(chW[w])

(* C4: a stage that receives the sentinel forwards it once to every peer   *)
(* of its downstream set and exits without processing a further batch: the *)
(* moderation stage sends one sentinel to the dispatcher, the dispatcher   *)
(* one to each worker of its pool, and the dispatcher that has received    *)
(* the sentinel ends its shutdown loop.                                    *)
C4_SentinelForwarding ==
    /\ [](C4_Inv)
    /\ [][C4_Step]_vars
    /\ (pcPM = "shutdown") ~> (pcPM = "done")

(* Both stages have exited after a batch went through them, and every      *)
(* worker has been sent its sentinel.                                      *)
C4_Witness ==
    /\ pcPF = "done" /\ pcPM = "done"
    /\ pmBatchNo >= 1
    /\ \A w \in Workers : sigW[w] = 1

C11_Step ==
    \A w \in Workers :
        (Len(chW'[w]) < Len(chW[w]) /\ Head(chW[w]).kind = "pack") =>
            /\ pcW'[w] = "recv"
            /\ chDM'[w] # << >>
            /\ Front(chDM'[w]) = chDM[w]
            /\ chDM'[w][Len(chDM'[w])][1].uid = Head(chW[w]).body[1].uid

(* C11: a worker handles one work item at a time: the step in which it     *)
(* takes an item from its queue ends with the result of that item sent,    *)
(* behind the results it sent before, and with the worker back at its      *)
(* receive; it takes no other item or sentinel in between.                 *)
C11_OneResultPerItem == [][C11_Step]_vars

(* An empty or null batch: None, "" or the empty list. *)
IsEmptyBatch(msg) ==
    \/ msg.kind \in {"none", "empty_str"}
    \/ msg.kind = "batch" /\ msg.body = << >>

C13_Step ==
    /\ (/\ pcPF = "recv" /\ chPF # << >> /\ IsEmptyBatch(Head(chPF))
        /\ chPF' = Tail(chPF)) =>
            pcPF' = "recv" /\ sigPM' = sigPM
    /\ (/\ pcPM = "recv" /\ chPM # << >> /\ IsEmptyBatch(Head(chPM))
        /\ chPM' = Tail(chPM)) =>
            pcPM' = "recv" /\ chW' = chW /\ sigW' = sigW

(* C13: a stage that receives an empty or null batch skips it: it sends no *)
(* work item and no sentinel and is back at its receive, in its loop.      *)
C13_EmptyBatchSkipped == [][C13_Step]_vars

(* No stage can take a step and the MPI library has no request to complete. *)
Quiescent ==
    /\ pcPF # "recv" \/ chPF = << >>
    /\ pcPM = "done" \/ (pcPM = "recv" /\ chPM = << >>)
    /\ dispatch_requests = 0
    /\ \A w \in Workers : pcW[w] # "recv" \/ chW[w] = << >>

(* C14: once the sentinel is emitted every stage exits: the pipeline does  *)
(* not come to rest after the sentinel with the policy filter, the         *)
(* dispatcher or a worker still at its receive.                            *)
C14_EveryStageExits ==
    (dmStop /\ Quiescent) =>
        /\ pVariant = "simsom" => pcPF # "recv"
        /\ pcPM = "done"
        /\ \A w \in Workers : pcW[w] # "recv"

C16_Step ==
    (chPM # << >> /\ chPM' = Tail(chPM)) => dispatch_requests = 0

(* C16: the dispatcher receives the next batch or the sentinel only when   *)
(* every isend of the current batch is complete: it is at its receive, or  *)
(* past its loop, with no request pending, and every step that takes a     *)
(* message from its channel starts with no request pending.                *)
C16_JoinBeforeNextRecv ==
    /\ [](pcPM \in {"recv", "shutdown", "done"} => dispatch_requests = 0)
    /\ [][C16_Step]_vars

(* The next message is queued for the dispatcher while sends of the        *)
(* current batch are pending.                                              *)
C16_Witness ==
    /\ pcPM = "wait"
    /\ dispatch_requests > 0
    /\ chPM # << >>

-----------------------------------------------------------------------------
(* Fan-out of produced messages to the followers' mailboxes                *)
(* (reboot/simsom_core.py, batch_message_propagation).                     *)
(* An object is a record [mid, obj]: mid is the content, obj the identity  *)
(* of the Python object, so that a deep copy is a new obj with the same    *)
(* mid.  The produced messages have the identities 1..Len(messages), the   *)
(* messages already on the board have identity 0.                          *)

MaxFollowers == 2
MaxMsgs == 2

batch_size == 1000

(* copy.deepcopy(m) made as the n-th copy of the call. *)
deepcopy(m, n) == [mid |-> m.mid, obj |-> n]

(* The innermost loop: one copy of m per entry of follower_batch, appended
   in the order of the entries; count copies were made before. *)
DeliverToBatch(message_board, follower_batch, m, count) ==
    LET appends == [p \in 1..Len(follower_batch) |->
                       [to |-> follower_batch[p], item |-> deepcopy(m, count + p)]]
        mine(f) == SelectSeq(appends, LAMBDA a : a.to = f)
    IN [f \in DOMAIN message_board |->
           message_board[f] \o [k \in 1..Len(mine(f)) |-> mine(f)[k].item]]

(* for m in messages: ... over one follower_batch, from message j on. *)
RECURSIVE MessagesLoop(_, _, _, _, _)
MessagesLoop(message_board, follower_batch, messages, j, count) ==
    IF j > Len(messages) THEN message_board
    ELSE MessagesLoop(DeliverToBatch(message_board, follower_batch, messages[j], count),
                      follower_batch, messages, j + 1, count + Len(follower_batch))

(* for i in range(0, len(followers), size): ... from the entry i on
   (entries are numbered from 1 here). *)
RECURSIVE ChunksLoop(_, _, _, _, _, _)
ChunksLoop(message_board, followers, messages, size, i, count) ==
    IF i > Len(followers) THEN message_board
    ELSE LET follower_batch == SubSeq(followers, i, Min(i + size - 1, Len(followers)))
         IN ChunksLoop(MessagesLoop(message_board, follower_batch, messages, 1, count),
                       followers, messages, size, i + size,
                       count + Len(follower_batch) * Len(messages))

batch_message_propagation(message_board, followers, messages) ==
    ChunksLoop(message_board, followers, messages, batch_size, 1, Len(messages))

(* A follower list longer than one chunk: a at its first and at its last
   entry, b at the batch_size - 1 entries in between. *)
LongFollowers(a, b) ==
    [p \in 1..(batch_size + 1) |-> IF p \in {1, batch_size + 1} THEN a ELSE b]

FollowerLists ==
    SeqsUpTo(Agents, MaxFollowers)
      \cup {LongFollowers(a, b) : a \in Agents, b \in Agents}

(* The messages an agent produced in one cycle. *)
Produced(n) == [j \in 1..n |-> [mid |-> j, obj |-> j]]

OldItem == [mid |-> 0, obj |-> 0]

FanInit ==
    /\ fFollowers \in FollowerLists
    /\ \E n \in 0..MaxMsgs : fMessages = Produced(n)
    /\ fBoard \in [Agents -> {<< >>, <<OldItem>>}]
    /\ fOut = << >>
    /\ fPc = "call"
    /\ ModIdle /\ CycleIdle /\ PipeIdle /\ SchedIdle

FanOut ==
    /\ fPc = "call"
    /\ fOut' = batch_message_propagation(fBoard, fFollowers, fMessages)
    /\ fPc' = "done"
    /\ UNCHANGED <<fFollowers, fMessages, fBoard, modVars, cycVars, pipeVars, rbVars>>

FanNext == FanOut

FanoutSpec == FanInit /\ [][FanNext]_vars

(* Number of entries of the follower list that name f. *)
Entries(f) == Cardinality({p \in DOMAIN fFollowers : fFollowers[p] = f})

(* Unchunked delivery: for each message in produced order, one copy per
   entry of the whole follower list. *)
UnchunkedMids(f) ==
    [k \in 1..(Len(fMessages) * Entries(f)) |-> fMessages[((k - 1) \div Entries(f)) + 1].mid]

Mids(box) == [k \in 1..Len(box) |-> box[k].mid]

Delivered(f) == SubSeq(fOut[f], Len(fBoard[f]) + 1, Len(fOut[f]))

(* C15: after the fan-out every mailbox holds what it held before, followed
   by one copy of each produced message per entry of the follower list that
   names its owner, in the order unchunked delivery gives them (message by
   message in produced order); the copies are new objects, no two of them
   the same and none of them a produced message; a mailbox whose owner is
   not in the follower list is unchanged. *)
C15_FanOutAsUnchunked ==
    fPc = "done" /\ fOut # << >> =>
        /\ \A f \in Agents :
              /\ SubSeq(fOut[f], 1, Len(fBoard[f])) = fBoard[f]
              /\ Mids(Delivered(f)) = UnchunkedMids(f)
              /\ Entries(f) = 0 => fOut[f] = fBoard[f]
              /\ \A k \in DOMAIN Delivered(f) : Delivered(f)[k].obj > Len(fMessages)
        /\ \A f, g \in Agents : \A k \in DOMAIN Delivered(f), l \in DOMAIN Delivered(g) :
              Delivered(f)[k].obj = Delivered(g)[l].obj => f = g /\ k = l

-----------------------------------------------------------------------------
(* The ready/busy scheduler of the pool manager and its handlers           *)
(* (reboot/simsom_core.py, main).  An agent is its aid; a message on the   *)
(* board is [mid |-> aid of its author, obj |-> 0], object identities are  *)
(* not followed here.  The program runs 1000 agents for 1000 iterations;   *)
(* the model runs num_agents agents for MaxIterations iterations, with     *)
(* more agents than handlers as in the program.                            *)

MaxIterations == 3

num_agents == NumAgents + 1

RAgents == 1..num_agents

(* agents.pop(agent_index) that leaves the agent in the pool. *)
RemoveAt_Keep(list, i) == list

RemoveAt(list, i) == SubSeq(list, 1, i - 1) \o SubSeq(list, i + 1, Len(list))

(* list.remove(x): the first entry equal to x is taken out. *)
Remove(list, x) ==
    LET first == CHOOSE i \in DOMAIN list :
                     list[i] = x /\ \A j \in 1..(i - 1) : list[j] # x
    IN RemoveAt(list, first)

Forget(message_board) ==
    [f \in DOMAIN message_board |->
        [k \in 1..Len(message_board[f]) |-> [mid |-> message_board[f][k].mid, obj |-> 0]]]

(* Follower lists main() can draw: for every agent the n agents after it. *)
FollowersOf(n) == [a \in RAgents |-> [p \in 1..n |-> ((a + p - 1) % num_agents) + 1]]

SchedInit ==
    /\ agents = [a \in RAgents |-> a]
    /\ ready_handlers_list = [i \in 1..NumWorkers |-> i]
    /\ busy_handlers_list = << >>
    /\ incoming_message_board = [a \in RAgents |-> << >>]
    /\ \E n \in {1, MaxFollowers} : rFollowers = FollowersOf(n)
    /\ iteration = 0 /\ rPc = "dispatch" /\ rScan = << >>
    /\ rToHandler = [h \in Workers |-> << >>]
    /\ rReply = [h \in Workers |-> << >>]
    /\ hPc = [h \in Workers |-> "recv"]
    /\ ModIdle /\ CycleIdle /\ PipeIdle /\ FanIdle

(* incoming_message_board[picked_agent.aid] = [] : the agent's mailbox is a
   new empty list; the list the pack holds is not touched. *)
Flush_Keep(message_board, aid) == message_board

Flush(message_board, aid) == [message_board EXCEPT ![aid] = << >>]

(* ready_handlers_list after ready_handlers_list.pop(). *)
ReadyAfterPop_Peek(list) == list

ReadyAfterPop(list) == Front(list)

(* if agents and ready_handlers_list: pick an agent, pop a handler, send the
   pack, flush the agent's mailbox, append the handler to the busy list;
   then the copy of the busy list is taken for the scan. *)
RDispatch ==
    /\ rPc = "dispatch" /\ iteration < MaxIterations
    /\ agents # << >> /\ ready_handlers_list # << >>
    /\ \E agent_index \in DOMAIN agents :
          LET picked_agent == agents[agent_index]
              handler_rank == ready_handlers_list[Len(ready_handlers_list)]
              agent_pack == [agent |-> picked_agent,
                             messages |-> incoming_message_board[picked_agent]]
          IN /\ agents' = RemoveAt(agents, agent_index)
             /\ ready_handlers_list' = ReadyAfterPop(ready_handlers_list)
             /\ incoming_message_board' = Flush(incoming_message_board, picked_agent)
             /\ rToHandler' = [rToHandler EXCEPT ![handler_rank] = Append(@, PackMsg(agent_pack))]
             /\ busy_handlers_list' = Append(busy_handlers_list, handler_rank)
             /\ rScan' = Append(busy_handlers_list, handler_rank)
    /\ rPc' = "poll"
    /\ UNCHANGED <<rFollowers, iteration, rReply, hPc, modVars, cycVars, pipeVars, fanVars>>

(* The condition of the if is false: the iteration goes on with the scan. *)
RNoDispatch ==
    /\ rPc = "dispatch" /\ iteration < MaxIterations
    /\ ~(agents # << >> /\ ready_handlers_list # << >>)
    /\ rScan' = busy_handlers_list
    /\ rPc' = "poll"
    /\ UNCHANGED <<agents, ready_handlers_list, busy_handlers_list, incoming_message_board,
                   rFollowers, iteration, rToHandler, rReply, hPc,
                   modVars, cycVars, pipeVars, fanVars>>

(* Iprobe finds a reply of the next busy handler: the agent goes back to the
   pool, its messages are propagated, the handler goes from busy to ready. *)
RPollHit ==
    /\ rPc = "poll" /\ rScan # << >> /\ rReply[Head(rScan)] # << >>
    /\ LET source == Head(rScan)
           agent_pack_reply == Head(rReply[source])
           updated_agent == agent_pack_reply.agent
           new_messages == agent_pack_reply.new_messages
       IN /\ rReply' = [rReply EXCEPT ![source] = Tail(@)]
          /\ agents' = Append(agents, updated_agent)
          /\ incoming_message_board' =
                 Forget(batch_message_propagation(incoming_message_board,
                                                  rFollowers[updated_agent], new_messages))
          /\ busy_handlers_list' = Remove(busy_handlers_list, source)
          /\ ready_handlers_list' = Append(ready_handlers_list, source)
    /\ rScan' = Tail(rScan)
    /\ UNCHANGED <<rFollowers, iteration, rPc, rToHandler, hPc,
                   modVars, cycVars, pipeVars, fanVars>>

(* Iprobe finds nothing from the next busy handler. *)
RPollMiss ==
    /\ rPc = "poll" /\ rScan # << >> /\ rReply[Head(rScan)] = << >>
    /\ rScan' = Tail(rScan)
    /\ UNCHANGED <<agents, ready_handlers_list, busy_handlers_list, incoming_message_board,
                   rFollowers, iteration, rPc, rToHandler, rReply, hPc,
                   modVars, cycVars, pipeVars, fanVars>>

REndIteration ==
    /\ rPc = "poll" /\ rScan = << >>
    /\ iteration' = iteration + 1
    /\ rPc' = "dispatch"
    /\ UNCHANGED <<agents, ready_handlers_list, busy_handlers_list, incoming_message_board,
                   rFollowers, rScan, rToHandler, rReply, hPc,
                   modVars, cycVars, pipeVars, fanVars>>

(* finally: "sigterm" to every handler. *)
RShutdown ==
    /\ rPc = "dispatch" /\ iteration >= MaxIterations
    /\ rToHandler' = [h \in Workers |-> Append(rToHandler[h], Sigterm)]
    /\ rPc' = "done"
    /\ UNCHANGED <<agents, ready_handlers_list, busy_handlers_list, incoming_message_board,
                   rFollowers, iteration, rScan, rReply, hPc,
                   modVars, cycVars, pipeVars, fanVars>>

(* A handler receives a pack, lets the agent act and sends the agent and its
   new messages back; how many messages the agent produces is random. *)
RHandlerCycle(h) ==
    /\ hPc[h] = "recv" /\ rToHandler[h] # << >> /\ Head(rToHandler[h]).kind = "pack"
    /\ rToHandler' = [rToHandler EXCEPT ![h] = Tail(@)]
    /\ \E n \in 0..1 :
          LET agent == Head(rToHandler[h]).body.agent
              actions == [j \in 1..n |-> [mid |-> agent, obj |-> 0]]
          IN rReply' = [rReply EXCEPT ![h] = Append(@, [agent |-> agent, new_messages |-> actions])]
    /\ UNCHANGED <<agents, ready_handlers_list, busy_handlers_list, incoming_message_board,
                   rFollowers, iteration, rPc, rScan, hPc,
                   modVars, cycVars, pipeVars, fanVars>>

RHandlerSigterm(h) ==
    /\ hPc[h] = "recv" /\ rToHandler[h] # << >> /\ Head(rToHandler[h]).kind = "sigterm"
    /\ rToHandler' = [rToHandler EXCEPT ![h] = Tail(@)]
    /\ hPc' = [hPc EXCEPT ![h] = "done"]
    /\ UNCHANGED <<agents, ready_handlers_list, busy_handlers_list, incoming_message_board,
                   rFollowers, iteration, rPc, rScan, rReply,
                   modVars, cycVars, pipeVars, fanVars>>

SchedNext ==
    \/ RDispatch
    \/ RNoDispatch
    \/ RPollHit
    \/ RPollMiss
    \/ REndIteration
    \/ RShutdown
    \/ \E h \in Workers : RHandlerCycle(h)
    \/ \E h \in Workers : RHandlerSigterm(h)

SchedSpec == SchedInit /\ [][SchedNext]_vars

(* Work items of handler h that are not yet back in the pool: packs on their
   way to it and replies on their way back. *)
Outstanding(h) ==
    Len(SelectSeq(rToHandler[h], LAMBDA m : m.kind = "pack")) + Len(rReply[h])

NoRepeats(list) == Cardinality(Range(list)) = Len(list)

C20_Inv ==
    /\ Range(ready_handlers_list) \cap Range(busy_handlers_list) = {}
    /\ Range(ready_handlers_list) \cup Range(busy_handlers_list) = Workers
    /\ NoRepeats(ready_handlers_list) /\ NoRepeats(busy_handlers_list)
    /\ \A h \in Workers :
          /\ Outstanding(h) <= 1
          /\ h \in Range(ready_handlers_list) => Outstanding(h) = 0
    /\ Cardinality({h \in Workers : Outstanding(h) > 0}) <= NumWorkers
    /\ Len(busy_handlers_list) <= NumWorkers

C20_Step ==
    \A h \in Workers :
        Len(SelectSeq(rToHandler'[h], LAMBDA m : m.kind = "pack"))
          > Len(SelectSeq(rToHandler[h], LAMBDA m : m.kind = "pack")) =>
            /\ ready_handlers_list # << >>
            /\ h \in Range(ready_handlers_list)
            /\ h \notin Range(ready_handlers_list')
            /\ h \in Range(busy_handlers_list')
            /\ Outstanding(h) = 0

(* C20: at the top of every iteration of the scheduling loop, before the
   scan and after every scanned handler, the ready and the busy list have
   no handler in common and hold, together, every handler once; a pack is
   sent only to a handler that is on the ready list, which leaves the ready
   list and enters the busy list with that step, and none is sent while the
   ready list is empty; so no handler ever has more than one work item
   outstanding and no more items are outstanding than there are handlers. *)
C20_ReadyBusyPartition == [](C20_Inv) /\ [][C20_Step]_vars

(* Every handler is busy while agents wait in the pool, at the top of an
   iteration: nothing can be dispatched. *)
C20_Witness ==
    /\ rPc = "dispatch" /\ iteration < MaxIterations
    /\ ready_handlers_list = << >> /\ agents # << >>
    /\ Len(busy_handlers_list) = NumWorkers
    /\ \A h \in Workers : Outstanding(h) = 1

(* Number of entries of the sequence q that satisfy holds. *)
Count(q, holds(_)) == Cardinality({i \in DOMAIN q : holds(q[i])})

InPool(a) == Count(agents, LAMBDA x : x = a)

InPacks(a, h) == Count(rToHandler[h], LAMBDA m : m.kind = "pack" /\ m.body.agent = a)

InReplies(a, h) == Count(rReply[h], LAMBDA r : r.agent = a)

(* The holders of agent a among the workers: one per pack or reply. *)
WorkerHolders(a) == {h \in Workers : InPacks(a, h) + InReplies(a, h) > 0}

(* C21: while the scheduling loop runs, every agent of the population is
   either once in the manager's pool and in no pack or reply, or in exactly
   one pack or reply of exactly one handler and not in the pool; and the
   length of the pool plus the length of the busy list is the size of the
   population. *)
C21_ExclusiveOwnership ==
    rPc \in {"dispatch", "poll"} =>
        /\ \A a \in RAgents :
              \/ InPool(a) = 1 /\ WorkerHolders(a) = {}
              \/ /\ InPool(a) = 0
                 /\ \E h \in Workers :
                       /\ WorkerHolders(a) = {h}
                       /\ InPacks(a, h) + InReplies(a, h) = 1
                       /\ h \in Range(busy_handlers_list)
        /\ Len(agents) + Len(busy_handlers_list) = num_agents

(* Agents are held in the pool, in a pack on its way to a handler and in a
   reply on its way back at the same time. *)
C21_Witness ==
    /\ rPc \in {"dispatch", "poll"}
    /\ agents # << >>
    /\ \E h \in Workers : \E a \in RAgents : InPacks(a, h) = 1
    /\ \E h \in Workers : \E a \in RAgents : InReplies(a, h) = 1

IsPrefix(p, q) == Len(p) <= Len(q) /\ SubSeq(q, 1, Len(p)) = p

(* The packs waiting for handler h. *)
Packs(q) == SelectSeq(q, LAMBDA m : m.kind = "pack")

(* A step that sends a pack to handler h: the pack is the last of the packs
   of h afterwards. *)
Dispatches(h) == Len(Packs(rToHandler'[h])) > Len(Packs(rToHandler[h]))

C22_Step ==
    /\ \A h \in Workers : Dispatches(h) =>
          LET pack == rToHandler'[h][Len(rToHandler'[h])].body
          IN /\ pack.messages = incoming_message_board[pack.agent]
             /\ incoming_message_board'[pack.agent] = << >>
             /\ \A a \in RAgents \ {pack.agent} :
                   incoming_message_board'[a] = incoming_message_board[a]
    /\ (\A h \in Workers : ~Dispatches(h)) =>
          \A a \in RAgents :
              IsPrefix(incoming_message_board[a], incoming_message_board'[a])

(* C22: a step that dispatches an agent puts exactly the contents its
   mailbox has at that moment in the pack, leaves the mailbox empty and
   touches no other mailbox; every other step leaves in every mailbox what
   was in it, in place, and may only append: so what is in a mailbox leaves
   it only in the one pack that carries it, and what is fanned out to an
   agent that is in flight stays in its mailbox until its next dispatch. *)
C22_MailboxHandedOnce == [][C22_Step]_vars

(* An agent is in flight with the messages its mailbox held at dispatch,
   and copies fanned out since then wait in its mailbox. *)
C22_Witness ==
    \E h \in Workers : \E k \in DOMAIN rToHandler[h] :
        /\ rToHandler[h][k].kind = "pack"
        /\ rToHandler[h][k].body.messages # << >>
        /\ incoming_message_board[rToHandler[h][k].body.agent] # << >>

(* In the queue q nothing but sentinels stands behind a sentinel. *)
NothingBehindSigterm(q) ==
    \A i, j \in DOMAIN q : q[i].kind = "sigterm" /\ i < j => q[j].kind = "sigterm"

C23_Inv ==
    /\ NothingBehindSigterm(chPM)
    /\ pcPM \in {"shutdown", "done"} =>
          /\ \A i \in DOMAIN chPM : chPM[i].kind # "batch"
          /\ active_user_packs = << >>
          /\ dispatch_requests = 0
    /\ \A w \in Workers :
          /\ NothingBehindSigterm(chW[w])
          /\ sigW[w] > 0 => pcPM \in {"shutdown", "done"}
          /\ pcW[w] = "done" => Packs(chW[w]) = << >>

C23_Step ==
    \A w \in Workers :
        /\ Len(Packs(chW'[w])) > Len(Packs(chW[w])) =>
              pcPM = "dispatch" /\ sigW[w] = 0 /\ pcW[w] # "done"
        /\ Len(Packs(chW'[w])) < Len(Packs(chW[w])) =>
              /\ pcW[w] = "recv"
              /\ \/ Len(chDM'[w]) = Len(chDM[w]) + 1 /\ pcW'[w] = "recv"
                 \/ pcW'[w] = "crashed"
        /\ pcW[w] = "crashed" => pcW'[w] = "crashed"
        /\ pcW[w] = "recv" /\ pcW'[w] = "done" => Packs(chW[w]) = << >>

(* C23: the sentinel stands behind every batch in the dispatcher's queue
   and behind every work item in a handler's queue; when the dispatcher
   forwards the sentinel it has received every batch the moderation stage
   forwarded, has sent every pack it kept of them and every send is
   complete, and it sends no pack afterwards; a handler that receives the
   sentinel has received every work item sent to it, and each of them was
   processed to a result in the step that received it (a handler whose
   unpacking fails ends without ever receiving the sentinel). *)
C23_ShutdownBehindWork == [](C23_Inv) /\ [][C23_Step]_vars

(* The sentinel waits in a handler's queue behind a work item, and the
   handler has already processed another one. *)
C23_Witness ==
    \E w \in Workers :
        /\ Len(chW[w]) >= 2
        /\ chW[w][1].kind = "pack" /\ chW[w][Len(chW[w])].kind = "sigterm"
        /\ pcW[w] = "recv" /\ chDM[w] # << >>

=============================================================================
